---- MODULE Spec2Model ----
(***************************************************************************)
(* Doc2Code generation engine: the judge, the validator, the two-model     *)
(* code generator, document ingestion and the orchestrating runPipeline.   *)
(*                                                                         *)
(* Every component has its own variables and its own specification, so a   *)
(* property of one component is checked on that component's behaviours:    *)
(*   SpecJudge     judgeCode applied to bounded inputs                     *)
(*   SpecValidate  staticAnalysis / runtimeValidation / validateCode       *)
(*   SpecGenerate  generateCode with its two model calls in flight         *)
(*   SpecIngest    two interleaved ingestDocument calls on one store       *)
(*   SpecIngestSeq ingestDocument calls one after the other                *)
(*   Spec          runPipeline                                             *)
(*                                                                         *)
(* JavaScript values that may be absent or of the wrong type are tagged    *)
(* records [t, v]: t = "num" carries the number v, any other tag carries   *)
(* v = 0.  The selectedIndex of a judge response is a JSON number, which   *)
(* need not be whole: it is a record [int, half] standing for int, or for  *)
(* int + 0.5 when half is set, so that Math.min / Math.max act on it as    *)
(* they act on the double.                                                 *)
(***************************************************************************)
EXTENDS Integers, Sequences, FiniteSets, TLC

VARIABLES
    jIn,        \* judgeCode: the last call's input [n, resp]
    jOut,       \* judgeCode: the last call's outcome
    vIn,        \* validateCode: the last call's input
    vOut,       \* validateCode: the last call's result
    gen,        \* generateCode: the call in progress
    store,      \* DocChunk collection: a sequence of stored documents
    ing,        \* ingestDocument: per caller, the call in progress
    run,        \* runPipeline: the run in progress
    gw,         \* chatCompletion / createEmbedding: the invocation in progress
    conf,       \* calculateConfidence: the last call's input and result
    tm,         \* buildTraceMappings: the call in progress
    rt,         \* retrieveRelevantDocs: the last call's input and result
    sp          \* splitCodeIntoBlocks: the call in progress

vars == <<jIn, jOut, vIn, vOut, gen, store, ing, run, gw, conf, tm, rt, sp>>

\* --------------------------------------------------------------- bounds

\* Largest number of candidates handed to judgeCode.
MaxCandidates == 3

\* Largest length of the scores array in a judge response.
MaxScores == 2

\* Largest number of chunks a fetched document is cut into.
MaxChunks == 2

\* Largest number of lines of a code text given to splitCodeIntoBlocks.
MaxLines == 5

\* Number of ingestDocument calls made in one behaviour.
MaxCalls == 2

\* Largest number of blocks the traced code is split into.
MaxCodeBlocks == 2

\* Largest number of chunks stored for the traced document.
MaxDocChunks == 2

\* Largest number of cached chunks retrieveRelevantDocs finds.
MaxCached == 3

\* ------------------------------------------------------- JavaScript values

Num(n) == [t |-> "num", v |-> n]
Undef == [t |-> "undef", v |-> 0]
Str == [t |-> "str", v |-> 0]

Min(a, b) == IF a <= b THEN a ELSE b
Max(a, b) == IF a >= b THEN a ELSE b

\* A number that may fall between two integers: int, or int + 0.5.
Dec(i, half) == [int |-> i, half |-> half]
Whole(i) == Dec(i, FALSE)

\* x <= y on such numbers.
DecLeq(x, y) ==
    2 * x.int + (IF x.half THEN 1 ELSE 0) <= 2 * y.int + (IF y.half THEN 1 ELSE 0)

\* Math.min and Math.max.
MathMin(x, y) == IF DecLeq(x, y) THEN x ELSE y
MathMax(x, y) == IF DecLeq(x, y) THEN y ELSE x

\* Whether x is a whole number that indexes an array of length n.
IsIndex(x, n) == ~x.half /\ x.int \in 0 .. n - 1

\* ------------------------------------------------------------- judgeCode

\* One element of the "scores" array of a judge response.  isNull: the element
\* is JSON null; total: the "total" field, absent or a number.
ScoreEntry(isNull, c, s, m, d, total) ==
    [isNull |-> isNull, correctness |-> c, security |-> s, simplicity |-> m,
     docAdherence |-> d, total |-> total]

ScoreEntries ==
    { ScoreEntry(FALSE, 90, 80, 70, 61, Undef),
      ScoreEntry(FALSE, 0, 0, 0, 0, Num(0)),
      ScoreEntry(FALSE, 90, 80, 70, 60, Num(88)),
      ScoreEntry(TRUE, 0, 0, 0, 0, Undef) }

\* The "scores" field: an array of entries, or something that is no array.
ScoresArray(items) == [isArray |-> TRUE, items |-> items]
NotAnArray == [isArray |-> FALSE, items |-> <<>>]

SeqsUpTo(S, k) == UNION { [1 .. len -> S] : len \in 0 .. k }

ScoresValues == { NotAnArray } \cup { ScoresArray(q) : q \in SeqsUpTo(ScoreEntries, MaxScores) }

\* The "selectedIndex" field: absent, a string, or a number.
NumIndex(x) == [t |-> "num", v |-> x]
NoIndex == [t |-> "undef", v |-> Whole(0)]
StrIndex == [t |-> "str", v |-> Whole(0)]

IndexValues ==
    { NoIndex, StrIndex }
        \cup { NumIndex(Dec(i, half)) : i \in -1 .. MaxCandidates, half \in BOOLEAN }

\* What the judge's model call can end in: the call throws, it returns text
\* that is no JSON, or it returns a JSON object.
CallFailed == [kind |-> "error", selectedIndex |-> NoIndex, scores |-> NotAnArray]
NotJson == [kind |-> "text", selectedIndex |-> NoIndex, scores |-> NotAnArray]
JsonReply(si, sc) == [kind |-> "json", selectedIndex |-> si, scores |-> sc]

JudgeResponses ==
    { CallFailed, NotJson }
        \cup { JsonReply(si, sc) : si \in IndexValues, sc \in ScoresValues }

\* A score tuple of a Judge Result.
CandidateScore(c, s, m, d, total) ==
    [correctness |-> c, security |-> s, simplicity |-> m, docAdherence |-> d,
     total |-> total]

\* Math.round of a non-negative quarter sum.
RoundQuarter(sum) == (sum + 2) \div 4

\* s.total || Math.round((s.correctness + s.security + s.simplicity + s.docAdherence) / 4)
TotalOrMean(e) ==
    IF e.total.t = "num" /\ e.total.v # 0
    THEN e.total.v
    ELSE RoundQuarter(e.correctness + e.security + e.simplicity + e.docAdherence)

JudgeResult(idx, scores, reasoning) ==
    [threw |-> FALSE, selectedIndex |-> idx, scores |-> scores, reasoning |-> reasoning]

JudgeThrew ==
    [threw |-> TRUE, selectedIndex |-> Whole(0), scores |-> << >>, reasoning |-> "none"]

\* The single-candidate shortcut.
JudgeSingle == JudgeResult(Whole(0), << CandidateScore(75, 75, 75, 75, 75) >>, "single")

\* The catch block's result: the first candidate, 70 everywhere.
JudgeFallback(n) ==
    JudgeResult(Whole(0), [i \in 1 .. n |-> CandidateScore(70, 70, 70, 70, 70)],
                "fallback")

\* Math.max(0, Math.min(parsed.selectedIndex, candidates.length - 1)).
ClampIndex(x, n) == MathMax(Whole(0), MathMin(x, Whole(n - 1)))

\* The try block of judgeCode on a JSON object.
JudgeParsed(n, resp) ==
    IF resp.selectedIndex.t # "num" \/ ~resp.scores.isArray
    THEN JudgeFallback(n)                      \* "Invalid judge response structure"
    ELSE IF \E i \in 1 .. Len(resp.scores.items) : resp.scores.items[i].isNull
    THEN JudgeFallback(n)                      \* s.total of null: TypeError
    ELSE JudgeResult(
            ClampIndex(resp.selectedIndex.v, n),
            [i \in 1 .. Len(resp.scores.items) |->
                LET e == resp.scores.items[i]
                IN  CandidateScore(e.correctness, e.security, e.simplicity,
                                   e.docAdherence, TotalOrMean(e))],
            "model")

\* judgeCode(candidates, ...) for n candidates and the outcome resp of its model
\* call.  The call is awaited before the try block opens.
JudgeCode(n, resp) ==
    IF n = 1 THEN JudgeSingle
    ELSE IF resp.kind = "error" THEN JudgeThrew
    ELSE IF resp.kind = "text" THEN JudgeFallback(n)
    ELSE JudgeParsed(n, resp)

NoJudgeInput == [n |-> 0, resp |-> NotJson]

JudgeInit ==
    /\ jIn = NoJudgeInput
    /\ jOut = JudgeThrew

\* One call of judgeCode.
JudgeCall ==
    /\ jIn = NoJudgeInput
    /\ \E n \in 1 .. MaxCandidates, resp \in JudgeResponses :
        /\ jIn' = [n |-> n, resp |-> resp]
        /\ jOut' = JudgeCode(n, resp)
    /\ UNCHANGED <<vIn, vOut, gen, store, ing, run, gw, conf, tm, rt, sp>>


\* ---------------------------------------------------------- validateCode

\* The pattern checks of staticAnalysis and their penalties.
BaseChecks == { "eval", "todo", "console", "credentials", "any", "tsignore" }
JsChecks == { "var", "looseEq" }
PyChecks == { "bareExcept", "wildcardImport" }
AllChecks == BaseChecks \cup JsChecks \cup PyChecks

Penalty(c) ==
    CASE c = "eval" -> 15
      [] c = "todo" -> 5
      [] c = "console" -> 3
      [] c = "credentials" -> 20
      [] c = "any" -> 5
      [] c = "tsignore" -> 10
      [] c = "var" -> 5
      [] c = "looseEq" -> 5
      [] c = "bareExcept" -> 10
      [] c = "wildcardImport" -> 5

Languages == { "javascript", "python", "go" }

\* The checks staticAnalysis runs for a language.
ChecksFor(language) ==
    BaseChecks
        \cup (IF language \in { "javascript", "typescript" } THEN JsChecks ELSE {})
        \cup (IF language = "python" THEN PyChecks ELSE {})

\* A code text as staticAnalysis sees it: tooShort (fewer than 10 characters
\* after trimming), the set of patterns that match it, and whether its opening
\* and closing brackets differ in number.
CodeText(tooShort, hits, imbalance) ==
    [tooShort |-> tooShort, hits |-> hits, imbalance |-> imbalance]

RECURSIVE SumPenalties(_)
SumPenalties(S) ==
    IF S = {} THEN 0
    ELSE LET c == CHOOSE x \in S : TRUE
         IN  Penalty(c) + SumPenalties(S \ { c })

\* staticAnalysis(code, language): the score and the issues it lists.
StaticAnalysis(code, language) ==
    IF code.tooShort
    THEN [score |-> 0, issues |-> { "tooShort" }]
    ELSE LET found == code.hits \cap ChecksFor(language)
             raw == 100 - SumPenalties(found) - (IF code.imbalance THEN 15 ELSE 0)
         IN  [score |-> Max(0, Min(100, raw)),
              issues |-> found \cup (IF code.imbalance THEN { "imbalance" } ELSE {})]

\* The outcome of runtimeValidation's model call.  score: the "score" field;
\* wouldPass: whether "wouldPass" is truthy; error: the "error" field, which is
\* null, the empty string or a description.
RuntimeReply(kind, score, wouldPass, error) ==
    [kind |-> kind, score |-> score, wouldPass |-> wouldPass, error |-> error]

RuntimeCallFailed == RuntimeReply("error", Undef, FALSE, "null")
RuntimeNotJson == RuntimeReply("text", Undef, FALSE, "null")

RuntimeScores == { -5, 49, 50, 150 }

RuntimeErrors == { "null", "empty", "text" }

RuntimeReplies ==
    { RuntimeCallFailed, RuntimeNotJson }
        \cup { RuntimeReply("json", Num(x), TRUE, er) :
                x \in RuntimeScores, er \in RuntimeErrors }
        \cup { RuntimeReply("json", sc, wp, er) :
                sc \in { Undef, Str }, wp \in BOOLEAN, er \in RuntimeErrors }

\* runtimeValidation(code, ...): never throws; a failed or unparseable call
\* gives score 50 and no error.
RuntimeValidation(reply) ==
    IF reply.kind # "json"
    THEN [score |-> 50, error |-> "null"]
    ELSE [score |-> IF reply.score.t = "num" THEN reply.score.v
                    ELSE IF reply.wouldPass THEN 85 ELSE 40,
          error |-> IF reply.error = "text" THEN "text" ELSE "null"]

ValidateCodeEitherScore(code, language, reply) ==
    LET staticResult == StaticAnalysis(code, language)
        runtimeResult == RuntimeValidation(reply)
    IN  [staticScore |-> staticResult.score,
         runtimeScore |-> runtimeResult.score,
         staticIssues |-> staticResult.issues,
         runtimeError |-> runtimeResult.error,
         passed |-> staticResult.score >= 50 \/ runtimeResult.score >= 50]

\* validateCode(code, language, taskDescription).
ValidateCode(code, language, reply) ==
    LET staticResult == StaticAnalysis(code, language)
        runtimeResult == RuntimeValidation(reply)
    IN  [staticScore |-> staticResult.score,
         runtimeScore |-> runtimeResult.score,
         staticIssues |-> staticResult.issues,
         runtimeError |-> runtimeResult.error,
         passed |-> staticResult.score >= 50 /\ runtimeResult.score >= 50]

NoValidation ==
    [staticScore |-> 0, runtimeScore |-> 0, staticIssues |-> {},
     runtimeError |-> "null", passed |-> FALSE]

NoValidateInput ==
    [called |-> FALSE, code |-> CodeText(TRUE, {}, FALSE),
     language |-> "go", reply |-> RuntimeNotJson]

ValidateInit ==
    /\ vIn = NoValidateInput
    /\ vOut = NoValidation

CodeTexts ==
    { CodeText(TRUE, {}, FALSE) }
        \cup { CodeText(FALSE, h, b) : h \in SUBSET AllChecks, b \in BOOLEAN }

\* One call of validateCode.
ValidateCall ==
    /\ ~vIn.called
    /\ \E code \in CodeTexts, language \in Languages, reply \in RuntimeReplies :
        /\ vIn' = [called |-> TRUE, code |-> code, language |-> language, reply |-> reply]
        /\ vOut' = ValidateCode(code, language, reply)
    /\ UNCHANGED <<jIn, jOut, gen, store, ing, run, gw, conf, tm, rt, sp>>


\* ---------------------------------------------------------- generateCode

PrimaryModel == "gpt-4.1-mini"
AlternativeModel == "gpt-4o-mini"

\* The text a code-generation call returns: a body, possibly wrapped in
\* markdown fences.  The body may be empty when the fences wrap nothing.
RawTexts ==
    { [fenced |-> f, body |-> b] : f \in BOOLEAN, b \in { "codeA", "codeB" } }
        \cup { [fenced |-> TRUE, body |-> ""] }

\* stripCodeFences: the fences go, the trimmed body stays.
StripCodeFences(raw) == raw.body

FailureReasons == { "rate limited", "timeout" }

Pending == [status |-> "pending", value |-> [fenced |-> FALSE, body |-> ""], reason |-> ""]
Fulfilled(raw) == [status |-> "fulfilled", value |-> raw, reason |-> ""]
Rejected(why) == [status |-> "rejected", value |-> [fenced |-> FALSE, body |-> ""], reason |-> why]

Settlements ==
    { Fulfilled(raw) : raw \in RawTexts } \cup { Rejected(why) : why \in FailureReasons }

Candidate(code, model, role) == [code |-> code, model |-> model, role |-> role]

\* The entry generateCode pushes on errors for a rejected call.
ErrorEntry(who, model, reason) == [who |-> who, model |-> model, reason |-> reason]

CollectCandidatesAllOrNothing(primaryResult, altResult) ==
    IF primaryResult.status = "fulfilled" /\ altResult.status = "fulfilled"
    THEN << Candidate(StripCodeFences(primaryResult.value), PrimaryModel, "primary"),
            Candidate(StripCodeFences(altResult.value), AlternativeModel, "alternative") >>
    ELSE << >>

\* The part of generateCode after Promise.allSettled: each outcome is looked at
\* on its own, the primary first.
CollectCandidates(primaryResult, altResult) ==
    (IF primaryResult.status = "fulfilled"
     THEN << Candidate(StripCodeFences(primaryResult.value), PrimaryModel, "primary") >>
     ELSE << >>)
    \o
    (IF altResult.status = "fulfilled"
     THEN << Candidate(StripCodeFences(altResult.value), AlternativeModel, "alternative") >>
     ELSE << >>)

CollectErrors(primaryResult, altResult) ==
    (IF primaryResult.status = "fulfilled"
     THEN << >>
     ELSE << ErrorEntry("Primary", PrimaryModel, primaryResult.reason) >>)
    \o
    (IF altResult.status = "fulfilled"
     THEN << >>
     ELSE << ErrorEntry("Alternative", AlternativeModel, altResult.reason) >>)

GenerateCode(primaryResult, altResult) ==
    LET candidates == CollectCandidates(primaryResult, altResult)
        errors == CollectErrors(primaryResult, altResult)
    IN  [threw |-> Len(candidates) = 0, candidates |-> candidates, errors |-> errors]

NoGeneration == [threw |-> FALSE, candidates |-> << >>, errors |-> << >>]

GenerateInit ==
    gen = [phase |-> "idle", primary |-> Pending, alt |-> Pending,
           settled |-> << >>, result |-> NoGeneration]

\* generateCode is called: both model calls are issued at once.
GenStart ==
    /\ gen.phase = "idle"
    /\ gen' = [gen EXCEPT !.phase = "awaiting"]
    /\ UNCHANGED <<jIn, jOut, vIn, vOut, store, ing, run, gw, conf, tm, rt, sp>>

\* The primary call settles.
GenSettlePrimary ==
    \E outcome \in Settlements :
        /\ gen.phase = "awaiting"
        /\ gen.primary.status = "pending"
        /\ gen' = [gen EXCEPT !.primary = outcome,
                              !.settled = Append(@, "primary")]
        /\ UNCHANGED <<jIn, jOut, vIn, vOut, store, ing, run, gw, conf, tm, rt, sp>>

\* The alternative call settles.
GenSettleAlt ==
    \E outcome \in Settlements :
        /\ gen.phase = "awaiting"
        /\ gen.alt.status = "pending"
        /\ gen' = [gen EXCEPT !.alt = outcome,
                              !.settled = Append(@, "alternative")]
        /\ UNCHANGED <<jIn, jOut, vIn, vOut, store, ing, run, gw, conf, tm, rt, sp>>

\* Promise.allSettled resolves once both calls have settled; generateCode
\* then builds its result or throws.
GenFinish ==
    /\ gen.phase = "awaiting"
    /\ gen.primary.status # "pending"
    /\ gen.alt.status # "pending"
    /\ gen' = [gen EXCEPT !.phase = "done",
                          !.result = GenerateCode(gen.primary, gen.alt)]
    /\ UNCHANGED <<jIn, jOut, vIn, vOut, store, ing, run, gw, conf, tm, rt, sp>>


\* --------------------------------------------------------- ingestDocument

Callers == { 1, 2 }

Urls == { "http://a/doc", " HTTP://A/Doc", "http://b/doc" }

\* hashUrl: the SHA-256 of the lower-cased, trimmed URL.  URLs that differ only
\* in case and surrounding blanks have one hash.
HashUrl(url) ==
    IF url \in { "http://a/doc", " HTTP://A/Doc" } THEN "hashA" ELSE "hashB"

\* A stored DocChunk document.
Chunk(docId, urlHash, chunkIndex, embedded) ==
    [docId |-> docId, urlHash |-> urlHash, chunkIndex |-> chunkIndex,
     embedded |-> embedded]

\* DocChunk.find({ urlHash }): the documents of the collection q with the
\* given urlHash, in stored order.
FindChunks(q, h) == SelectSeq(q, LAMBDA d : d.urlHash = h)

\* DocChunk.countDocuments({ urlHash }).
CountDocuments(q, h) == Len(FindChunks(q, h))

\* DocChunk.deleteMany({ urlHash }).
DeleteManyKeepsAll(q, h) == q
DeleteMany(q, h) == SelectSeq(q, LAMBDA d : d.urlHash # h)

\* DocChunk.create(doc): the schema's indexes are not unique, every insert is
\* accepted.
CreateChunk(q, doc) == Append(q, doc)

NoResult == [threw |-> FALSE, cached |-> FALSE, chunkCount |-> 0]

IdleCall(n) ==
    [pc |-> "idle", calls |-> n, url |-> "http://a/doc", force |-> FALSE,
     nChunks |-> 0, i |-> 0, startCount |-> 0, existingCount |-> 0,
     fetches |-> 0, embeds |-> 0, endCount |-> 0, result |-> NoResult]

IngestInit ==
    /\ store = << >>
    /\ ing = [p \in Callers |-> IdleCall(0)]

Active(p) == ing[p].pc \notin { "idle", "done" }

\* The call of caller p ends, by returning or by throwing, with the collection
\* as q: endCount notes how many chunks the URL's hash then has.
Ended(f, p, q) ==
    [f EXCEPT ![p].pc = "done",
              ![p].endCount = CountDocuments(q, HashUrl(f[p].url))]

\* if (existingCount > 0): the document counts as cached.
IsCachedOffByOne(existingCount) == existingCount > 1
IsCached(existingCount) == existingCount > 0

\* ingestDocument calls made so far, by all callers.
TotalCalls == ing[1].calls + ing[2].calls

\* ingestDocument(url, { forceRefresh }) is called by p.
IngestStart(p) ==
    \E url \in Urls, force \in BOOLEAN :
        /\ ing[p].pc \in { "idle", "done" }
        /\ TotalCalls < MaxCalls
        /\ ing' = [ing EXCEPT ![p] =
                      [IdleCall(ing[p].calls + 1) EXCEPT
                          !.pc = IF force THEN "delete" ELSE "count",
                          !.url = url,
                          !.force = force,
                          !.startCount = CountDocuments(store, HashUrl(url))]]
        /\ UNCHANGED <<jIn, jOut, vIn, vOut, gen, store, run, gw, conf, tm, rt, sp>>

\* await DocChunk.countDocuments({ urlHash }), forceRefresh not set.
IngestCount(p) ==
    /\ ing[p].pc = "count"
    /\ LET n == CountDocuments(store, HashUrl(ing[p].url))
       IN  ing' = [ing EXCEPT
                      ![p].existingCount = n,
                      ![p].pc = IF IsCached(n) THEN "findOne" ELSE "fetch"]
    /\ UNCHANGED <<jIn, jOut, vIn, vOut, gen, store, run, gw, conf, tm, rt, sp>>

\* await DocChunk.findOne({ urlHash }), then the cached result is returned.
IngestReturnCached(p) ==
    /\ ing[p].pc = "findOne"
    /\ ing' = [Ended(ing, p, store) EXCEPT
                  ![p].result = [threw |-> FALSE, cached |-> TRUE,
                                 chunkCount |-> ing[p].existingCount]]
    /\ UNCHANGED <<jIn, jOut, vIn, vOut, gen, store, run, gw, conf, tm, rt, sp>>

\* await DocChunk.deleteMany({ urlHash }), forceRefresh set; the write may fail.
IngestDelete(p) ==
    /\ ing[p].pc = "delete"
    /\ \/ /\ store' = DeleteMany(store, HashUrl(ing[p].url))
          /\ ing' = [ing EXCEPT ![p].pc = "fetch"]
       \/ /\ store' = store
          /\ ing' = [Ended(ing, p, store) EXCEPT ![p].result.threw = TRUE]
    /\ UNCHANGED <<jIn, jOut, vIn, vOut, gen, run, gw, conf, tm, rt, sp>>

\* await fetchContent(url): the fetch fails, the content is too short, or the
\* content is cut into n >= 1 chunks.
IngestFetch(p) ==
    /\ ing[p].pc = "fetch"
    /\ \/ \E n \in 1 .. MaxChunks :
            ing' = [ing EXCEPT
                       ![p].fetches = @ + 1,
                       ![p].nChunks = n,
                       ![p].i = 0,
                       ![p].pc = "embed"]
       \/ ing' = [Ended(ing, p, store) EXCEPT
                     ![p].fetches = @ + 1,
                     ![p].result.threw = TRUE]
    /\ UNCHANGED <<jIn, jOut, vIn, vOut, gen, store, run, gw, conf, tm, rt, sp>>

\* The loop head: the next chunk is embedded, or the loop is over and the
\* result is returned.
IngestEmbed(p) ==
    /\ ing[p].pc = "embed"
    /\ IF ing[p].i < ing[p].nChunks
       THEN \/ ing' = [ing EXCEPT
                          ![p].embeds = @ + 1, ![p].pc = "create"]
            \/ ing' = [ing EXCEPT    \* createEmbedding throws
                          ![p].embeds = @ + 1, ![p].pc = "createBare"]
       ELSE ing' = [Ended(ing, p, store) EXCEPT
                       ![p].result = [threw |-> FALSE, cached |-> FALSE,
                                      chunkCount |-> ing[p].nChunks]]
    /\ UNCHANGED <<jIn, jOut, vIn, vOut, gen, store, run, gw, conf, tm, rt, sp>>

DocId(p) == << p, ing[p].calls >>

\* await DocChunk.create({ ..., chunkIndex: i, embedding }) in the try block.
IngestCreate(p) ==
    /\ ing[p].pc = "create"
    /\ \/ /\ store' = CreateChunk(store,
                         Chunk(DocId(p), HashUrl(ing[p].url), ing[p].i, TRUE))
          /\ ing' = [ing EXCEPT ![p].i = @ + 1, ![p].pc = "embed"]
       \/ /\ store' = store                          \* the write throws
          /\ ing' = [ing EXCEPT ![p].pc = "createBare"]
    /\ UNCHANGED <<jIn, jOut, vIn, vOut, gen, run, gw, conf, tm, rt, sp>>

\* await DocChunk.create({ ..., chunkIndex: i, embedding: [] }) in the catch.
IngestCreateBare(p) ==
    /\ ing[p].pc = "createBare"
    /\ \/ /\ store' = CreateChunk(store,
                         Chunk(DocId(p), HashUrl(ing[p].url), ing[p].i, FALSE))
          /\ ing' = [ing EXCEPT ![p].i = @ + 1, ![p].pc = "embed"]
       \/ /\ store' = store                          \* the write throws
          /\ ing' = [Ended(ing, p, store) EXCEPT ![p].result.threw = TRUE]
    /\ UNCHANGED <<jIn, jOut, vIn, vOut, gen, run, gw, conf, tm, rt, sp>>


\* ------------------------------------------------------------ runPipeline

\* ENGINE_CONFIG.maxFixAttempts.
MaxFixAttempts == 2

\* The request's target language.
RequestLanguage == "javascript"

\* What staticAnalysis finds in each code text of the model: "codeA" is clean,
\* "codeB" holds credentials, eval and @ts-ignore with unbalanced brackets,
\* the empty text is too short.
Profile(code) ==
    CASE code = "" -> CodeText(TRUE, {}, FALSE)
      [] code = "codeA" -> CodeText(FALSE, {}, FALSE)
      [] code = "codeB" -> CodeText(FALSE, { "credentials", "eval", "tsignore" }, TRUE)

\* Outcomes of the external calls of one run, kept small.
RunPrimaryOutcomes ==
    { Fulfilled([fenced |-> FALSE, body |-> "codeA"]),
      Fulfilled([fenced |-> TRUE, body |-> ""]),
      Rejected("timeout") }

RunAltOutcomes ==
    { Fulfilled([fenced |-> TRUE, body |-> "codeB"]),
      Fulfilled([fenced |-> TRUE, body |-> ""]),
      Rejected("rate limited") }

RunJudgeResponses ==
    { CallFailed, NotJson,
      JsonReply(NumIndex(Whole(1)), ScoresArray(<< ScoreEntry(FALSE, 90, 80, 70, 60, Num(88)),
                                       ScoreEntry(FALSE, 0, 0, 0, 0, Num(0)) >>)),
      JsonReply(NumIndex(Dec(4, TRUE)), ScoresArray(<< ScoreEntry(FALSE, 90, 80, 70, 61, Undef) >>)),
      JsonReply(NumIndex(Dec(0, TRUE)), ScoresArray(<< >>)) }

RunRuntimeReplies ==
    { RuntimeCallFailed,
      RuntimeReply("json", Num(85), TRUE, "null"),
      RuntimeReply("json", Num(40), FALSE, "text"),
      RuntimeReply("json", Undef, FALSE, "null") }

RunFixReplies == { [fenced |-> TRUE, body |-> "codeA"], [fenced |-> FALSE, body |-> "codeB"] }

\* array[x]: undefined unless x is a whole number inside the array.
HasElement(q, x) == IsIndex(x, Len(q))
ElementAt(q, x) == q[x.int + 1]

SelectCodeOfAlternative(candidates, judgeResult) == "codeB"

\* genResult.candidates[judgeResult.selectedIndex]?.code || genResult.candidates[0].code
SelectCode(candidates, judgeResult) ==
    IF HasElement(candidates, judgeResult.selectedIndex)
          /\ ElementAt(candidates, judgeResult.selectedIndex).code # ""
    THEN ElementAt(candidates, judgeResult.selectedIndex).code
    ELSE candidates[1].code

\* judgeResult.scores[judgeResult.selectedIndex]?.total || 70
JudgeScoreUsed(judgeResult) ==
    IF HasElement(judgeResult.scores, judgeResult.selectedIndex)
          /\ ElementAt(judgeResult.scores, judgeResult.selectedIndex).total # 0
    THEN ElementAt(judgeResult.scores, judgeResult.selectedIndex).total
    ELSE 70

NeedsRepairOnAnyFailure(validation) == ~validation.passed

\* The condition under which the repair loop is entered (line 224).
NeedsRepair(validation) == ~validation.passed /\ validation.runtimeError # "null"

LoopContinuesUnbounded(attempt, validation) == ~validation.passed

\* Whether the for loop runs another attempt after `attempt` attempts, the last
\* of which ended with `validation` (lines 225 and 237).
LoopContinues(attempt, validation) ==
    ~validation.passed /\ attempt < MaxFixAttempts

\* fixCode's return value: the reply without its fences.
FixCode(raw) == StripCodeFences(raw)

\* Math.round(docSimilarity * 100), for a docSimilarity given in thousandths.
NormalizedDocSim(docSimilarity) == (docSimilarity + 5) \div 10

\* The inputs <<judge, runtime, static, normalizedDocSim>>, among the score
\* values of this model, at which the weighted sum is half-way between two
\* integers and its computation in doubles falls just below the half
\* (0*0.4 + 3*0.3 + 2*0.2 + 2*0.1 is 1.4999999999999998).
SumBelowHalf ==
    { << 0, 3, 2, 2 >>, << 40, 3, 2, 2 >>, << 70, 3, 2, 2 >>, << 75, 3, 2, 2 >> }

\* Math.round(judgeScore * w.judge + runtimeScore * w.runtime
\*            + staticScore * w.static + normalizedDocSim * w.docSimilarity)
ConfidenceScore(judgeScore, runtimeScore, staticScore, normalizedDocSim) ==
    LET tenths == 4 * judgeScore + 3 * runtimeScore + 2 * staticScore + normalizedDocSim
    IN  IF << judgeScore, runtimeScore, staticScore, normalizedDocSim >> \in SumBelowHalf
        THEN tenths \div 10
        ELSE (tenths + 5) \div 10

VerificationStatusAnyOf(confidenceScore, runtimeScore, staticScore) ==
    IF confidenceScore >= 75 \/ runtimeScore >= 70 \/ staticScore >= 60 THEN "verified"
    ELSE IF confidenceScore >= 50 THEN "partial"
    ELSE "unverified"

\* The verification status of calculateConfidence.
VerificationStatus(confidenceScore, runtimeScore, staticScore) ==
    IF confidenceScore >= 75 /\ runtimeScore >= 70 /\ staticScore >= 60 THEN "verified"
    ELSE IF confidenceScore >= 50 THEN "partial"
    ELSE "unverified"

\* calculateConfidence(judgeScore, runtimeScore, staticScore, docSimilarity),
\* docSimilarity in thousandths.
CalculateConfidence(judgeScore, runtimeScore, staticScore, docSimilarity) ==
    LET n == NormalizedDocSim(docSimilarity)
        c == ConfidenceScore(judgeScore, runtimeScore, staticScore, n)
    IN  [confidenceScore |-> c,
         verificationStatus |-> VerificationStatus(c, runtimeScore, staticScore),
         judgeScore |-> judgeScore,
         docSimilarity |-> n]

\* auditCode's degraded result and a normal one.  findings and performanceNotes
\* are the lengths of the two lists.
AuditDegraded ==
    [overallRisk |-> "medium", findings |-> 0, performanceNotes |-> 1, score |-> 50]
AuditLow ==
    [overallRisk |-> "low", findings |-> 0, performanceNotes |-> 0, score |-> 90]

\* What the audit's model call can end in: kind is "error" (the call throws),
\* "text" (the reply is no JSON) or "json"; score is absent or a number,
\* overallRisk is "" when absent, findings and performanceNotes are the lengths
\* of the arrays, -1 for a value that is no array.
AuditReply(kind, score, overallRisk, findings, notes) ==
    [kind |-> kind, score |-> score, overallRisk |-> overallRisk,
     findings |-> findings, performanceNotes |-> notes]

AuditCallFailed == AuditReply("error", Undef, "", -1, -1)
AuditNotJson == AuditReply("text", Undef, "", -1, -1)

AuditCodeZeroOnFailure(reply) ==
    IF reply.kind # "json"
    THEN [overallRisk |-> "critical", findings |-> 0, performanceNotes |-> 0, score |-> 0]
    ELSE AuditLow

\* auditCode(code, language) for the outcome `reply` of its model call; the
\* call and the parsing are inside the try block.
AuditCode(reply) ==
    IF reply.kind # "json"
    THEN AuditDegraded
    ELSE [overallRisk |-> IF reply.overallRisk = "" THEN "low" ELSE reply.overallRisk,
          findings |-> Max(0, reply.findings),
          performanceNotes |-> Max(0, reply.performanceNotes),
          score |-> IF reply.score.t = "num"
                    THEN Max(0, Min(100, reply.score.v)) ELSE 75]

RunAuditReplies ==
    { AuditCallFailed, AuditNotJson,
      AuditReply("json", Num(90), "low", 0, 0),
      AuditReply("json", Undef, "", -1, 2),
      AuditReply("json", Num(150), "high", 1, -1) }

NoConfidence ==
    [confidenceScore |-> 0, verificationStatus |-> "unverified", judgeScore |-> 0,
     docSimilarity |-> 0]

\* The Generation document as stored.
NoRecord ==
    [status |-> "none", stages |-> << >>, selectedCode |-> "", candidates |-> << >>,
     judgeResult |-> JudgeThrew, validationResult |-> NoValidation,
     securityAudit |-> AuditDegraded, confidence |-> NoConfidence,
     errorMessage |-> "none"]

RunInit ==
    run = [pc |-> "create",
           outcome |-> "running",       \* running | returned | threw
           record |-> NoRecord,         \* the stored Generation
           saves |-> 0,                 \* successful generation.save() calls
           started |-> << >>,           \* the stage of every startStage call
           stages |-> << >>,            \* the in-memory stages list
           trace |-> << >>,             \* events emitted and services called
           candidates |-> << >>,
           judgeResult |-> JudgeThrew,
           selectedCode |-> "",
           validationResult |-> NoValidation,
           validations |-> << >>,       \* every result validateCode returned
           fixArgs |-> << >>,           \* the arguments of every fixCode call
           fixed |-> << >>,             \* the code every fixCode call returned
           attempt |-> 0,
           docSimilarity |-> 0,
           securityAudit |-> AuditDegraded,
           lineMappings |-> 0,
           confidence |-> NoConfidence,
           degraded |-> {},             \* stages whose own call failed inside
           error |-> "none",            \* the call whose failure reached the catch
           requestsUsed |-> 0,
           history |-> 0]

Emit(name) == << "emit", name >>
Call(name) == << "call", name >>

\* Control reaches the catch block of runPipeline with the failure of `what`.
Caught(what, tr) ==
    [run EXCEPT !.pc = "catch", !.error = what, !.trace = tr]

\* The same from inside a stage: startStage was called, endStage is not.
CaughtIn(stage, what, tr) ==
    [Caught(what, tr) EXCEPT !.started = Append(@, stage)]


OtherVars == <<jIn, jOut, vIn, vOut, gen, store, ing, gw, conf, tm, rt, sp>>

\* Generation.create({ ..., status: "processing" }), before the try block.
RunCreate ==
    /\ run.pc = "create"
    /\ \/ run' = [run EXCEPT !.pc = "enhance", !.record.status = "processing"]
       \/ run' = [run EXCEPT !.pc = "done", !.outcome = "threw", !.error = "create"]
    /\ UNCHANGED OtherVars

\* Stage 1: enhanceTask throws when its call fails or its reply holds no task.
RunEnhance ==
    /\ run.pc = "enhance"
    /\ LET tr == run.trace \o << Emit("enhancing_task"), Call("enhanceTask") >>
       IN  \/ run' = [run EXCEPT !.pc = "retrieve", !.trace = tr,
                                 !.started = Append(@, "enhancing_task"),
                                 !.stages = Append(@, "enhancing_task")]
           \/ run' = CaughtIn("enhancing_task", "enhanceTask", tr)
    /\ UNCHANGED OtherVars

\* Stage 2: retrieveRelevantDocs returns a similarity (in thousandths), 0.5
\* when a call inside
\* it failed; with no document text the default 0.5 is taken without a call.
RunRetrieve ==
    /\ run.pc = "retrieve"
    /\ \/ \E sim \in { 300, 849, 1000 } :
             run' = [run EXCEPT !.pc = "generate",
                                !.trace = @ \o << Emit("retrieving_docs"),
                                                 Call("retrieveRelevantDocs") >>,
                                !.docSimilarity = sim,
                                !.started = Append(@, "retrieving_docs"),
                                !.stages = Append(@, "retrieving_docs")]
       \/ run' = [run EXCEPT !.pc = "generate",
                             !.trace = @ \o << Emit("retrieving_docs"),
                                              Call("retrieveRelevantDocs") >>,
                             !.docSimilarity = 500,
                             !.degraded = @ \cup { "retrieveRelevantDocs" },
                             !.started = Append(@, "retrieving_docs"),
                             !.stages = Append(@, "retrieving_docs")]
       \/ run' = [run EXCEPT !.pc = "generate",
                             !.trace = Append(@, Emit("retrieving_docs")),
                             !.docSimilarity = 500,
                             !.started = Append(@, "retrieving_docs"),
                             !.stages = Append(@, "retrieving_docs")]
    /\ UNCHANGED OtherVars

\* Stage 3: generateCode.
RunGenerate ==
    /\ run.pc = "generate"
    /\ \E p \in RunPrimaryOutcomes, a \in RunAltOutcomes :
         LET res == GenerateCode(p, a)
             tr == run.trace \o << Emit("generating_code"), Call("generateCode") >>
         IN  IF res.threw
             THEN run' = CaughtIn("generating_code", "generateCode", tr)
             ELSE run' = [run EXCEPT !.pc = "judge", !.trace = tr,
                                     !.candidates = res.candidates,
                                     !.started = Append(@, "generating_code"),
                                     !.stages = Append(@, "generating_code")]
    /\ UNCHANGED OtherVars

\* Stage 4: judgeCode.
RunJudge ==
    /\ run.pc = "judge"
    /\ \E resp \in RunJudgeResponses :
         LET res == JudgeCode(Len(run.candidates), resp)
             tr == run.trace \o << Emit("judging"), Call("judgeCode") >>
         IN  IF res.threw
             THEN run' = CaughtIn("judging", "judgeCode", tr)
             ELSE run' = [run EXCEPT !.pc = "validate", !.trace = tr,
                                     !.judgeResult = res,
                                     !.started = Append(@, "judging"),
                                     !.stages = Append(@, "judging")]
    /\ UNCHANGED OtherVars

\* Stage 5: the judge's choice is validated.
RunValidate ==
    /\ run.pc = "validate"
    /\ \E reply \in RunRuntimeReplies :
         LET code == SelectCode(run.candidates, run.judgeResult)
             res == ValidateCode(Profile(code), RequestLanguage, reply)
         IN  run' = [run EXCEPT
                        !.pc = IF NeedsRepair(res) THEN "fix" ELSE "audit",
                        !.trace = @ \o << Emit("validating"), Call("validateCode") >>,
                        !.selectedCode = code,
                        !.validationResult = res,
                        !.validations = Append(@, res),
                        !.degraded = IF reply.kind = "error"
                                     THEN @ \cup { "validateCode" } ELSE @,
                        !.started = Append(@, "validating"),
                        !.stages = Append(@, "validating")]
    /\ UNCHANGED OtherVars

StageName(attempt) == IF attempt = 1 THEN "runtime_fix_1" ELSE "runtime_fix_2"

\* Stage 5b: one iteration of the repair loop: fixCode, then validateCode.
RunFix ==
    /\ run.pc = "fix"
    /\ LET args == [code |-> run.selectedCode, errorLog |-> run.validationResult.runtimeError]
           tr == run.trace \o << Emit("fixing_code"), Call("fixCode") >>
       IN  \/ \E raw \in RunFixReplies, reply \in RunRuntimeReplies :
                LET code == FixCode(raw)
                    res == ValidateCode(Profile(code), RequestLanguage, reply)
                IN  run' = [run EXCEPT
                               !.pc = IF LoopContinues(run.attempt + 1, res)
                                      THEN "fix" ELSE "audit",
                               !.attempt = @ + 1,
                               !.trace = Append(tr, Call("validateCode")),
                               !.fixArgs = Append(@, args),
                               !.fixed = Append(@, code),
                               !.selectedCode = code,
                               !.validationResult = res,
                               !.validations = Append(@, res),
                               !.degraded = IF reply.kind = "error"
                                            THEN @ \cup { "validateCode" } ELSE @,
                               !.started = Append(@, StageName(run.attempt + 1)),
                               !.stages = Append(@, StageName(run.attempt + 1))]
           \/ run' = [CaughtIn(StageName(run.attempt + 1), "fixCode", tr) EXCEPT
                         !.attempt = @ + 1, !.fixArgs = Append(@, args)]
    /\ UNCHANGED OtherVars

\* Stage 6: auditCode never throws.
RunAudit ==
    /\ run.pc = "audit"
    /\ \E reply \in RunAuditReplies :
         run' = [run EXCEPT !.pc = "trace",
                            !.trace = @ \o << Emit("security_audit"), Call("auditCode") >>,
                            !.securityAudit = AuditCode(reply),
                            !.degraded = IF reply.kind # "json"
                                         THEN @ \cup { "auditCode" } ELSE @,
                            !.started = Append(@, "security_audit"),
                            !.stages = Append(@, "security_audit")]
    /\ UNCHANGED OtherVars

\* Stage 7b: buildTraceMappings; a failure leaves the list empty.
RunTrace ==
    /\ run.pc = "trace"
    /\ LET tr == run.trace \o << Emit("trace_mapping"), Call("buildTraceMappings") >>
       IN  \/ \E n \in 0 .. 1 :
                run' = [run EXCEPT !.pc = "score", !.trace = tr,
                                   !.lineMappings = n,
                                   !.started = Append(@, "trace_mapping"),
                                   !.stages = Append(@, "trace_mapping")]
           \/ run' = [run EXCEPT !.pc = "score", !.trace = tr,
                                 !.lineMappings = 0,
                                 !.degraded = @ \cup { "buildTraceMappings" },
                                 !.started = Append(@, "trace_mapping"),
                                 !.stages = Append(@, "trace_mapping")]
    /\ UNCHANGED OtherVars

\* Stage 8: calculateConfidence.
RunScore ==
    /\ run.pc = "score"
    /\ run' = [run EXCEPT
                  !.pc = "save",
                  !.trace = @ \o << Emit("scoring"), Call("calculateConfidence") >>,
                  !.confidence =
                      CalculateConfidence(JudgeScoreUsed(run.judgeResult),
                                          run.validationResult.runtimeScore,
                                          run.validationResult.staticScore,
                                          run.docSimilarity),
                  !.started = Append(@, "scoring"),
                  !.stages = Append(@, "scoring")]
    /\ UNCHANGED OtherVars

\* The document generation.save() writes on success.
CompletedRecord ==
    [status |-> "completed", stages |-> run.stages, selectedCode |-> run.selectedCode,
     candidates |-> run.candidates, judgeResult |-> run.judgeResult,
     validationResult |-> run.validationResult, securityAudit |-> run.securityAudit,
     confidence |-> run.confidence, errorMessage |-> "none"]

\* Finalize: the fields are set and the record is saved as completed.
RunSave ==
    /\ run.pc = "save"
    /\ LET tr == run.trace \o << Emit("finalizing"), Call("save") >>
       IN  \/ run' = [run EXCEPT !.pc = "userUpdate", !.trace = tr,
                                 !.record = CompletedRecord,
                                 !.saves = @ + 1]
           \/ run' = Caught("save", tr)
    /\ UNCHANGED OtherVars

\* User.findByIdAndUpdate(userId, { $inc: { requestsUsed: 1 } }).
RunUserUpdate ==
    /\ run.pc = "userUpdate"
    /\ LET tr == Append(run.trace, Call("User.findByIdAndUpdate"))
       IN  \/ run' = [run EXCEPT !.pc = "history", !.trace = tr,
                                 !.requestsUsed = @ + 1]
           \/ run' = Caught("User.findByIdAndUpdate", tr)
    /\ UNCHANGED OtherVars

\* History.create(...), then emitComplete and the return.
RunHistory ==
    /\ run.pc = "history"
    /\ LET tr == Append(run.trace, Call("History.create"))
       IN  \/ run' = [run EXCEPT !.pc = "done", !.outcome = "returned",
                                 !.trace = Append(tr, Emit("complete")),
                                 !.history = @ + 1]
           \/ run' = Caught("History.create", tr)
    /\ UNCHANGED OtherVars

\* The catch block: the record is saved as failed, emitError is called and the
\* error is thrown again; when this save fails its error is thrown instead.
RunCatch ==
    /\ run.pc = "catch"
    /\ LET tr == Append(run.trace, Call("save"))
       IN  \/ run' = [run EXCEPT
                         !.pc = "done", !.outcome = "threw",
                         !.trace = Append(tr, Emit("error")),
                         !.record.status = "failed",
                         !.record.errorMessage = run.error,
                         !.record.stages = run.stages,
                         !.saves = @ + 1]
           \/ run' = [run EXCEPT !.pc = "done", !.outcome = "threw", !.trace = tr]
    /\ UNCHANGED OtherVars

RunNext ==
    \/ RunCreate
    \/ RunEnhance
    \/ RunRetrieve
    \/ RunGenerate
    \/ RunJudge
    \/ RunValidate
    \/ RunFix
    \/ RunAudit
    \/ RunTrace
    \/ RunScore
    \/ RunSave
    \/ RunUserUpdate
    \/ RunHistory
    \/ RunCatch

\* ------------------------------------------------------ calculateConfidence

\* Score values and similarities (in thousandths) calculateConfidence is
\* called with.
JudgeScores == { 0, 40, 70, 75, 80, 100 }
RuntimeScoreValues == { 0, 3, 69, 70, 80, 100 }
StaticScoreValues == { 0, 2, 59, 60, 80, 100 }
DocSimilarities == { 0, 20, 500, 800, 849, 1000 }

ConfidenceInit ==
    conf = [called |-> FALSE, judgeScore |-> 0, runtimeScore |-> 0, staticScore |-> 0,
            docSimilarity |-> 0, result |-> NoConfidence]

\* One call of calculateConfidence.
ConfidenceCall ==
    /\ ~conf.called
    /\ \E j \in JudgeScores, r \in RuntimeScoreValues, s \in StaticScoreValues,
          d \in DocSimilarities :
         conf' = [called |-> TRUE, judgeScore |-> j, runtimeScore |-> r,
                  staticScore |-> s, docSimilarity |-> d,
                  result |-> CalculateConfidence(j, r, s, d)]
    /\ UNCHANGED <<jIn, jOut, vIn, vOut, gen, store, ing, run, gw, tm, rt, sp>>

ConfidenceNext == ConfidenceCall

\* ------------------------------------------------------ buildTraceMappings

\* similarityThreshold's default, in thousandths.
SimilarityThreshold == 300

\* Cosine similarities, in thousandths, of a block's embedding with a chunk's.
Similarities == { -1000, 299, 300, 900 }

\* The loop over chunksWithEmbeddings (lines 67-76) after k chunks: the best
\* score so far and the position of its chunk, 0 standing for null; a later
\* chunk replaces the best only with a strictly greater score.
RECURSIVE BestMatch(_, _)
BestMatch(scores, k) ==
    IF k = 0
    THEN [bestScore |-> -1000, bestChunk |-> 0]
    ELSE LET before == BestMatch(scores, k - 1)
         IN  IF scores[k] > before.bestScore
             THEN [bestScore |-> scores[k], bestChunk |-> k]
             ELSE before

KeepsMatchAboveThreshold(best) ==
    best.bestChunk # 0 /\ best.bestScore > SimilarityThreshold

\* bestChunk && bestScore >= similarityThreshold
KeepsMatch(best) ==
    best.bestChunk # 0 /\ best.bestScore >= SimilarityThreshold

\* The positions, in the stored order, of the chunks that have an embedding.
ChunksWithEmbeddings(docChunks) ==
    SelectSeq([k \in 1 .. Len(docChunks) |-> k], LAMBDA k : docChunks[k])

NoBlock == [index |-> 0, long |-> FALSE, embedded |-> FALSE, scores |-> << >>]

TraceInit ==
    tm = [pc |-> "idle",            \* idle | loop | done
          docChunks |-> << >>,      \* per stored chunk: whether it has an embedding
          embedded |-> << >>,       \* chunksWithEmbeddings, as positions in docChunks
          blocks |-> << >>,         \* per code block: whether it has 15 characters
          i |-> 0,                  \* blocks gone through
          last |-> NoBlock,         \* the block gone through last
          mappings |-> << >>,       \* the mappings pushed
          result |-> "none"]        \* none | returned

TmOthers == <<jIn, jOut, vIn, vOut, gen, store, ing, run, gw, conf, rt, sp>>

\* The call up to the loop: the chunks are read (a failed read returns []),
\* the embedded ones kept, the code split; an empty list at any of the three
\* returns [].
TmStart ==
    /\ tm.pc = "idle"
    /\ \/ tm' = [tm EXCEPT !.pc = "done", !.result = "returned"]
       \/ \E docChunks \in SeqsUpTo(BOOLEAN, MaxDocChunks),
             blocks \in SeqsUpTo(BOOLEAN, MaxCodeBlocks) :
            LET embedded == ChunksWithEmbeddings(docChunks)
            IN  tm' = [tm EXCEPT
                          !.pc = IF embedded = << >> \/ blocks = << >>
                                 THEN "done" ELSE "loop",
                          !.result = IF embedded = << >> \/ blocks = << >>
                                     THEN "returned" ELSE "none",
                          !.docChunks = docChunks,
                          !.embedded = embedded,
                          !.blocks = blocks]
    /\ UNCHANGED TmOthers

\* A block of fewer than 15 characters is passed over.
TmSkipShort ==
    /\ tm.pc = "loop"
    /\ tm.i < Len(tm.blocks)
    /\ ~tm.blocks[tm.i + 1]
    /\ tm' = [tm EXCEPT !.i = @ + 1,
                        !.last = [index |-> tm.i + 1, long |-> FALSE,
                                  embedded |-> FALSE, scores |-> << >>]]
    /\ UNCHANGED TmOthers

\* createEmbedding throws for the block: the inner catch logs it.
TmEmbedFails ==
    /\ tm.pc = "loop"
    /\ tm.i < Len(tm.blocks)
    /\ tm.blocks[tm.i + 1]
    /\ tm' = [tm EXCEPT !.i = @ + 1,
                        !.last = [index |-> tm.i + 1, long |-> TRUE,
                                  embedded |-> FALSE, scores |-> << >>]]
    /\ UNCHANGED TmOthers

\* The block is embedded and compared with every embedded chunk; the best
\* match is pushed when it meets the threshold.  Scores are in thousandths,
\* which Math.round(bestScore * 1000) / 1000 leaves as they are.
TmMatch ==
    /\ tm.pc = "loop"
    /\ tm.i < Len(tm.blocks)
    /\ tm.blocks[tm.i + 1]
    /\ \E scores \in [1 .. Len(tm.embedded) -> Similarities] :
         LET best == BestMatch(scores, Len(scores))
         IN  tm' = [tm EXCEPT
                       !.i = @ + 1,
                       !.last = [index |-> tm.i + 1, long |-> TRUE,
                                 embedded |-> TRUE, scores |-> scores],
                       !.mappings =
                           IF KeepsMatch(best)
                           THEN Append(@, [block |-> tm.i + 1,
                                           docChunk |-> tm.embedded[best.bestChunk],
                                           similarityScore |-> best.bestScore])
                           ELSE @]
    /\ UNCHANGED TmOthers

\* The loop is over: the mappings are returned.
TmReturn ==
    /\ tm.pc = "loop"
    /\ tm.i = Len(tm.blocks)
    /\ tm' = [tm EXCEPT !.pc = "done", !.result = "returned"]
    /\ UNCHANGED TmOthers

TraceNext == TmStart \/ TmSkipShort \/ TmEmbedFails \/ TmMatch \/ TmReturn

\* ---------------------------------------------------- retrieveRelevantDocs

\* similarityThreshold's default, in thousandths.
RetrievalThreshold == 400

\* A cached chunk as the function sees it: whether it has an embedding and
\* the cosine similarity (thousandths) of the task with it.
CachedChunk(embedded, score) == [embedded |-> embedded, score |-> score]

CachedChunks ==
    { CachedChunk(FALSE, 0) } \cup { CachedChunk(TRUE, x) : x \in { 100, 399, 400, 900 } }

\* The in-memory chunks of a document of more than two chunks: per chunk the
\* similarity of the task with it, or ok = FALSE when its createEmbedding
\* throws.
MemoryChunkOutcomes ==
    { [ok |-> FALSE, score |-> 0], [ok |-> TRUE, score |-> 399],
      [ok |-> TRUE, score |-> 900] }

\* The document text: "short" (under 50 characters), "few" (one or two
\* chunks) or "many" (three chunks, with the outcome of each embedding).
DocContents ==
    { [size |-> "short", chunks |-> << >>], [size |-> "few", chunks |-> << >>] }
        \cup { [size |-> "many", chunks |-> q] : q \in [1 .. 3 -> MemoryChunkOutcomes] }

\* The inputs of a call and the outcomes of the calls it makes: keyed (a docUrl
\* or docId is given), find ("throws" or "ok") with the chunks it returns in
\* chunkIndex order, taskEmbedding ("throws" or "ok"), the document text and
\* options.maxChunks.
RetrievalInputs ==
    [keyed : BOOLEAN,
     find : { "ok", "throws" },
     cached : SeqsUpTo(CachedChunks, MaxCached),
     taskEmbedding : { "ok", "throws" },
     doc : DocContents,
     maxChunks : { 1, 2 }]

\* Array.prototype.sort((a, b) => b.score - a.score): descending and stable.
RECURSIVE SortByScore(_)
SortByScore(q) ==
    IF Len(q) <= 1 THEN q
    ELSE LET sorted == SortByScore(SubSeq(q, 1, Len(q) - 1))
             x == q[Len(q)]
             ahead == SelectSeq(sorted, LAMBDA e : e.score >= x.score)
             behind == SelectSeq(sorted, LAMBDA e : e.score < x.score)
         IN  ahead \o << x >> \o behind

\* slice(0, k)
Slice(q, k) == SubSeq(q, 1, Min(k, Len(q)))

RECURSIVE SumScores(_)
SumScores(q) == IF q = << >> THEN 0 ELSE q[1].score + SumScores(Tail(q))

\* A result: the context (its kind and, for chunks, their positions) and the
\* similarity as a fraction num/den of thousandths; failed names the calls
\* that threw.
RetrievalResult(kind, chunks, num, den, failed) ==
    [threw |-> FALSE, kind |-> kind, chunks |-> chunks,
     similarity |-> [num |-> num, den |-> den], failed |-> failed]

RetrievalDegradedToNote(failed) == RetrievalResult("urlNote", << >>, 300, 1, failed)

\* The catch block: the raw document text, 0.5.
RetrievalDegraded(failed) == RetrievalResult("raw", << >>, 500, 1, failed)

Positions(q) == [i \in 1 .. Len(q) |-> q[i].pos]

\* The fallback of the cache-first strategy: the first maxChunks chunks in
\* chunkIndex order.
CacheFallback(cached, maxChunks) ==
    [i \in 1 .. Min(maxChunks, Len(cached)) |-> i]

\* Strategy 2, for a document of more than two chunks: a chunk whose embedding
\* fails is scored 0 by the inner catch.
RetrieveInMemory(in) ==
    IF in.taskEmbedding = "throws" THEN RetrievalDegraded({ "taskEmbedding" })
    ELSE LET n == Len(in.doc.chunks)
             scoredChunks ==
                 SortByScore([i \in 1 .. n |->
                     [pos |-> i,
                      score |-> IF in.doc.chunks[i].ok
                                THEN in.doc.chunks[i].score ELSE 0]])
             topChunks ==
                 Slice(SelectSeq(scoredChunks, LAMBDA c : c.score >= RetrievalThreshold),
                       in.maxChunks)
             selected == IF Len(topChunks) > 0 THEN topChunks
                         ELSE Slice(scoredChunks, in.maxChunks)
             failed == IF \E i \in 1 .. n : ~in.doc.chunks[i].ok
                       THEN { "chunkEmbedding" } ELSE {}
         IN  RetrievalResult("memory", Positions(selected), SumScores(selected),
                             Len(selected), failed)

\* Strategy 2.
RetrieveUncached(in) ==
    IF in.doc.size = "short" THEN RetrievalResult("urlNote", << >>, 300, 1, {})
    ELSE IF in.doc.size = "few" THEN RetrievalResult("whole", << >>, 1000, 1, {})
    ELSE RetrieveInMemory(in)

\* Strategy 1 on a non-empty list of cached chunks.
RetrieveCached(in) ==
    IF in.taskEmbedding = "throws" THEN RetrievalDegraded({ "taskEmbedding" })
    ELSE LET all == [i \in 1 .. Len(in.cached) |->
                        [pos |-> i, embedded |-> in.cached[i].embedded,
                         score |-> in.cached[i].score]]
             scored ==
                 Slice(SortByScore(SelectSeq(all,
                           LAMBDA c : c.embedded /\ c.score >= RetrievalThreshold)),
                       in.maxChunks)
         IN  IF Len(scored) > 0
             THEN RetrievalResult("cached", Positions(scored), SumScores(scored),
                                  Len(scored), {})
             ELSE RetrievalResult("cached", CacheFallback(in.cached, in.maxChunks),
                                  500, 1, {})

\* retrieveRelevantDocs(taskDescription, docContent, options).
RetrieveRelevantDocs(in) ==
    IF in.keyed /\ in.find = "throws" THEN RetrievalDegraded({ "find" })
    ELSE IF in.keyed /\ Len(in.cached) > 0 THEN RetrieveCached(in)
    ELSE RetrieveUncached(in)

NoRetrieval ==
    [called |-> FALSE,
     in |-> [keyed |-> FALSE, find |-> "ok", cached |-> << >>, taskEmbedding |-> "ok",
             doc |-> [size |-> "short", chunks |-> << >>], maxChunks |-> 1],
     result |-> RetrievalDegraded({})]

RetrievalInit == rt = NoRetrieval

\* One call of retrieveRelevantDocs.
RetrievalCall ==
    /\ ~rt.called
    /\ \E in \in RetrievalInputs :
         rt' = [called |-> TRUE, in |-> in, result |-> RetrieveRelevantDocs(in)]
    /\ UNCHANGED <<jIn, jOut, vIn, vOut, gen, store, ing, run, gw, conf, tm, sp>>

RetrievalNext == RetrievalCall

\* ------------------------------------------- chatCompletion, createEmbedding

\* ENGINE_CONFIG.retry.
MaxAttempts == 3
BaseDelayMs == 1000
MaxDelayMs == 10000

GatewayFunctions == { "chatCompletion", "createEmbedding" }

\* An error a backend call throws: error.status (0 when absent) and error.code
\* ("" when absent).
BackendError(status, code) == [status |-> status, code |-> code]

\* HTTP errors, connection errors, and errors that carry neither field: the
\* "Empty response" error chatCompletion throws inside its own try block, a
\* TypeError on a response without data in createEmbedding.
BackendErrors ==
    { BackendError(st, "") : st \in { 400, 401, 429, 500, 503 } }
        \cup { BackendError(0, c) : c \in { "ECONNRESET", "ETIMEDOUT", "ENOTFOUND", "" } }

\* isRetryable of chatCompletion's catch block.
IsRetryable(error) ==
    \/ error.status = 429
    \/ error.status = 500
    \/ error.status = 503
    \/ error.code = "ECONNRESET"
    \/ error.code = "ETIMEDOUT"

\* The condition under which the catch block throws instead of sleeping:
\* chatCompletion looks at the attempt and the error, createEmbedding at the
\* attempt alone.
GivesUp(fn, attempt, error) ==
    IF fn = "chatCompletion"
    THEN attempt = MaxAttempts \/ ~IsRetryable(error)
    ELSE attempt = MaxAttempts

RECURSIVE Pow2(_)
Pow2(k) == IF k = 0 THEN 1 ELSE 2 * Pow2(k - 1)

\* Math.min(baseDelayMs * Math.pow(2, attempt - 1), maxDelayMs)
Delay(attempt) == Min(BaseDelayMs * Pow2(attempt - 1), MaxDelayMs)

NextAttemptStuck(attempt) == attempt

\* attempt++ of the for loop.
NextAttempt(attempt) == attempt + 1

\* attempt <= maxAttempts, the for loop's condition.
LoopCondition(attempt) == attempt <= MaxAttempts

GatewayInit ==
    gw = [pc |-> "idle",            \* idle | call | sleep | done
          fn |-> "none",
          attempt |-> 0,
          calls |-> 0,              \* backend calls made
          errors |-> << >>,         \* the error of every failed backend call
          delays |-> << >>,         \* every delay slept
          outcome |-> "none",       \* none | returned | threw
          thrown |-> "none"]        \* none | api error | exhausted

GwOthers == <<jIn, jOut, vIn, vOut, gen, store, ing, run, conf, tm, rt, sp>>

\* chatCompletion(options) or createEmbedding(text) is invoked.
GwInvoke ==
    /\ gw.pc = "idle"
    /\ \E fn \in GatewayFunctions :
         gw' = [gw EXCEPT !.pc = "call", !.fn = fn, !.attempt = 1]
    /\ UNCHANGED GwOthers

\* The backend call of this attempt returns a usable response.
GwBackendOk ==
    /\ gw.pc = "call"
    /\ gw.calls <= MaxAttempts
    /\ gw' = [gw EXCEPT !.pc = "done", !.calls = @ + 1, !.outcome = "returned"]
    /\ UNCHANGED GwOthers

\* The backend call of this attempt fails: the catch block throws or sleeps.
GwBackendFail ==
    /\ gw.pc = "call"
    /\ gw.calls <= MaxAttempts
    /\ \E error \in BackendErrors :
         IF GivesUp(gw.fn, gw.attempt, error)
         THEN gw' = [gw EXCEPT !.pc = "done", !.calls = @ + 1,
                               !.errors = Append(@, error),
                               !.outcome = "threw", !.thrown = "api error"]
         ELSE gw' = [gw EXCEPT !.pc = "sleep", !.calls = @ + 1,
                               !.errors = Append(@, error)]
    /\ UNCHANGED GwOthers

\* The delay passes; the loop goes to its next attempt, or ends and the
\* function throws its last line's error.
GwSleep ==
    /\ gw.pc = "sleep"
    /\ LET next == NextAttempt(gw.attempt)
       IN  IF LoopCondition(next)
           THEN gw' = [gw EXCEPT !.pc = "call", !.attempt = next,
                                 !.delays = Append(@, Delay(gw.attempt))]
           ELSE gw' = [gw EXCEPT !.pc = "done", !.attempt = next,
                                 !.delays = Append(@, Delay(gw.attempt)),
                                 !.outcome = "threw", !.thrown = "exhausted"]
    /\ UNCHANGED GwOthers

GatewayNext == GwInvoke \/ GwBackendOk \/ GwBackendFail \/ GwSleep

\* ---------------------------------------------------- splitCodeIntoBlocks

\* The texts a line of the code can have: empty, white space only, or code.
LineTexts == { "", "  ", "x = 1" }

\* line.trim()
Trim(line) == IF line = "  " THEN "" ELSE line

\* code.split("\n"): at least one line, the empty code gives one empty line.
CodeLines == UNION { [1 .. len -> LineTexts] : len \in 1 .. MaxLines }

\* A line kept in currentLines: its text, and its number to tell it apart.
KeptLine(lineNum, line) == [lineNum |-> lineNum, line |-> line]

EndedBlockThroughBlank(blockStart, lineNum, currentLines) ==
    [startLine |-> blockStart, endLine |-> lineNum, text |-> currentLines]

\* The block pushed when a blank line ends the current block.
EndedBlock(blockStart, lineNum, currentLines) ==
    [startLine |-> blockStart, endLine |-> lineNum - 1, text |-> currentLines]

\* The block pushed after the loop.
FinalBlock(blockStart, lines, currentLines) ==
    [startLine |-> blockStart, endLine |-> Len(lines), text |-> currentLines]

SplitInit ==
    sp = [pc |-> "idle", lines |-> << >>, i |-> 0, blocks |-> << >>,
          currentLines |-> << >>, blockStart |-> 1]

SpOthers == <<jIn, jOut, vIn, vOut, gen, store, ing, run, gw, conf, tm, rt>>

\* The call: the code is split into lines, blockStart is 1.
SplitStart ==
    /\ sp.pc = "idle"
    /\ \E lines \in CodeLines :
         sp' = [sp EXCEPT !.pc = "loop", !.lines = lines]
    /\ UNCHANGED SpOthers

\* A blank line after block content: the current block is pushed.
SplitEndBlock ==
    /\ sp.pc = "loop"
    /\ sp.i < Len(sp.lines)
    /\ LET lineNum == sp.i + 1
           line == sp.lines[lineNum]
       IN  /\ Trim(line) = "" /\ Len(sp.currentLines) > 0
           /\ sp' = [sp EXCEPT
                        !.blocks = Append(@, EndedBlock(sp.blockStart, lineNum,
                                                        sp.currentLines)),
                        !.currentLines = << >>,
                        !.blockStart = lineNum + 1,
                        !.i = @ + 1]
    /\ UNCHANGED SpOthers

\* A line with content: it opens a block when none is open, and is kept.
SplitPushLine ==
    /\ sp.pc = "loop"
    /\ sp.i < Len(sp.lines)
    /\ LET lineNum == sp.i + 1
           line == sp.lines[lineNum]
       IN  /\ Trim(line) # ""
           /\ sp' = [sp EXCEPT
                        !.blockStart = IF Len(sp.currentLines) = 0 THEN lineNum ELSE @,
                        !.currentLines = Append(@, KeptLine(lineNum, line)),
                        !.i = @ + 1]
    /\ UNCHANGED SpOthers

\* A blank line before any block content.
SplitSkipBlank ==
    /\ sp.pc = "loop"
    /\ sp.i < Len(sp.lines)
    /\ LET lineNum == sp.i + 1
           line == sp.lines[lineNum]
       IN  /\ Trim(line) = "" /\ Len(sp.currentLines) = 0
           /\ sp' = [sp EXCEPT !.blockStart = lineNum + 1, !.i = @ + 1]
    /\ UNCHANGED SpOthers

\* After the loop: the open block, if any, is pushed and the blocks returned.
SplitReturn ==
    /\ sp.pc = "loop"
    /\ sp.i = Len(sp.lines)
    /\ sp' = [sp EXCEPT
                 !.pc = "done",
                 !.blocks = IF Len(sp.currentLines) > 0
                            THEN Append(@, FinalBlock(sp.blockStart, sp.lines,
                                                      sp.currentLines))
                            ELSE @]
    /\ UNCHANGED SpOthers

SplitNext == SplitStart \/ SplitEndBlock \/ SplitPushLine \/ SplitSkipBlank \/ SplitReturn

\* ---------------------------------------------------------- specifications

Init ==
    /\ JudgeInit
    /\ ValidateInit
    /\ GenerateInit
    /\ IngestInit
    /\ RunInit
    /\ GatewayInit
    /\ ConfidenceInit
    /\ TraceInit
    /\ RetrievalInit
    /\ SplitInit

JudgeNext == JudgeCall

ValidateNext == ValidateCall

GenerateNext == GenStart \/ GenSettlePrimary \/ GenSettleAlt \/ GenFinish

IngestNext ==
    \/ \E p \in Callers : IngestStart(p)
    \/ \E p \in Callers : IngestCount(p)
    \/ \E p \in Callers : IngestReturnCached(p)
    \/ \E p \in Callers : IngestDelete(p)
    \/ \E p \in Callers : IngestFetch(p)
    \/ \E p \in Callers : IngestEmbed(p)
    \/ \E p \in Callers : IngestCreate(p)
    \/ \E p \in Callers : IngestCreateBare(p)

\* Calls one after the other: a call starts only when no call is in progress.
IngestSeqStart(p) ==
    /\ \A q \in Callers : ~Active(q)
    /\ IngestStart(p)

IngestSeqNext ==
    \/ \E p \in Callers : IngestSeqStart(p)
    \/ \E p \in Callers : IngestCount(p)
    \/ \E p \in Callers : IngestReturnCached(p)
    \/ \E p \in Callers : IngestDelete(p)
    \/ \E p \in Callers : IngestFetch(p)
    \/ \E p \in Callers : IngestEmbed(p)
    \/ \E p \in Callers : IngestCreate(p)
    \/ \E p \in Callers : IngestCreateBare(p)

Next == RunNext

Spec == Init /\ [][Next]_vars

\* Every awaited call of the run returns or throws: a run that can take a step
\* takes one.
SpecFair == Spec /\ WF_vars(Next)

SpecJudge == Init /\ [][JudgeNext]_vars

SpecValidate == Init /\ [][ValidateNext]_vars

SpecGenerate == Init /\ [][GenerateNext]_vars

SpecIngest == Init /\ [][IngestNext]_vars

SpecIngestSeq == Init /\ [][IngestSeqNext]_vars

SpecConfidence == Init /\ [][ConfidenceNext]_vars

SpecTrace == Init /\ [][TraceNext]_vars

SpecRetrieval == Init /\ [][RetrievalNext]_vars

SpecGateway == Init /\ [][GatewayNext]_vars

SpecSplit == Init /\ [][SplitNext]_vars

\* A backend call settles and a timer fires: a started invocation keeps moving.
SpecGatewayFair == SpecGateway /\ WF_vars(GatewayNext)


\* ------------------------------------------------------------------ claims

InTrace(e) == \E i \in 1 .. Len(run.trace) : run.trace[i] = e

\* C1: once the Generation has been saved as completed or failed, no later step
\* of the run changes the stored record or saves it again.
C1_TerminalStatusFinal ==
    [][run.record.status \in { "completed", "failed" }
          => (run'.record = run.record /\ run'.saves = run.saves)]_vars

\* Every validation of the run reported failure with a runtime error.
EveryValidationFailed ==
    \A i \in 1 .. Len(run.validations) :
        ~run.validations[i].passed /\ run.validations[i].runtimeError # "null"

\* C2: the repair loop calls fixCode, and validateCode after it, at most
\* maxFixAttempts times; when every validation fails with a runtime error and
\* the last attempt's validation is in, the run is at the security audit or
\* past it, never at a further attempt.
C2_RepairLoopBounded ==
    /\ run.attempt <= MaxFixAttempts
    /\ Len(run.fixArgs) = run.attempt
    /\ Len(run.validations) <= 1 + MaxFixAttempts
    /\ run.pc = "fix" => run.attempt < MaxFixAttempts
    /\ (EveryValidationFailed /\ Len(run.validations) = 1 + MaxFixAttempts)
          => (run.pc = "audit" \/ InTrace(Call("auditCode")))

\* C2 witness: three failed validations, two fixes, and the run at the audit.
C2_Witness ==
    /\ EveryValidationFailed
    /\ Len(run.validations) = 1 + MaxFixAttempts
    /\ Len(run.fixArgs) = MaxFixAttempts
    /\ run.pc = "audit"

\* C3: a run is stored as failed only when enhancement failed, code generation
\* failed or a persistence write failed.
C3_OnlyFatalStagesFail ==
    run.record.status = "failed"
        => run.error \in { "enhanceTask", "generateCode", "save",
                           "User.findByIdAndUpdate", "History.create" }

\* C4: for two or more candidates judgeCode returns a Judge Result whatever its
\* model call ends in; when the call fails or its reply is no JSON, the result
\* is the fallback.
C4_JudgeNeverThrows ==
    jIn.n >= 2
        => /\ ~jOut.threw
           /\ jIn.resp.kind # "json" => jOut = JudgeFallback(jIn.n)

\* C5: the selectedIndex judgeCode returns is a valid index of the candidates.
C5_SelectedIndexValid ==
    (jIn.n >= 1 /\ ~jOut.threw) => IsIndex(jOut.selectedIndex, jIn.n)

\* C6: every result of validateCode has passed exactly when both scores are at
\* least 50.
C6_PassedIffBothScores ==
    vIn.called => (vOut.passed <=> (vOut.staticScore >= 50 /\ vOut.runtimeScore >= 50))

\* C6 witness: a result that fails on the runtime score alone, at 49.
C6_Witness ==
    /\ vIn.called
    /\ vOut.staticScore >= 50
    /\ vOut.runtimeScore = 49
    /\ ~vOut.passed

C8_ForcedRefreshReplaces ==
    \A p \in Callers :
        (ing[p].pc = "done" /\ ing[p].force /\ ~ing[p].result.threw)
            => /\ ~ing[p].result.cached
               /\ ing[p].result.chunkCount = ing[p].nChunks
               /\ ing[p].endCount = ing[p].result.chunkCount

\* C8 witness: a forced refresh returned with fewer chunks than were stored
\* before it.
C8_Witness ==
    \E p \in Callers :
        /\ ing[p].pc = "done"
        /\ ing[p].force
        /\ ~ing[p].result.threw
        /\ ing[p].startCount > ing[p].result.chunkCount

\* C9: no two stored chunks have the same (urlHash, chunkIndex).
C9_ChunkKeyUnique ==
    \A i, j \in 1 .. Len(store) :
        (store[i].urlHash = store[j].urlHash /\ store[i].chunkIndex = store[j].chunkIndex)
            => i = j

\* C10: generateCode finishes only after both calls have settled; it throws
\* exactly when both were rejected; with one call fulfilled it returns that
\* call's candidate alone and the other call's failure; with both fulfilled it
\* returns both candidates and no error.
C10_IndependentFailure ==
    gen.phase = "done" =>
        LET pOk == gen.primary.status = "fulfilled"
            aOk == gen.alt.status = "fulfilled"
            res == gen.result
        IN  /\ gen.primary.status # "pending" /\ gen.alt.status # "pending"
            /\ res.threw <=> (~pOk /\ ~aOk)
            /\ (pOk /\ ~aOk) =>
                   /\ Len(res.candidates) = 1
                   /\ res.candidates[1].role = "primary"
                   /\ res.candidates[1].code = StripCodeFences(gen.primary.value)
                   /\ Len(res.errors) = 1
                   /\ res.errors[1].who = "Alternative"
                   /\ res.errors[1].reason = gen.alt.reason
            /\ (~pOk /\ aOk) =>
                   /\ Len(res.candidates) = 1
                   /\ res.candidates[1].role = "alternative"
                   /\ res.candidates[1].code = StripCodeFences(gen.alt.value)
                   /\ Len(res.errors) = 1
                   /\ res.errors[1].who = "Primary"
                   /\ res.errors[1].reason = gen.primary.reason
            /\ (pOk /\ aOk) =>
                   /\ Len(res.candidates) = 2
                   /\ res.candidates[1].role = "primary"
                   /\ res.candidates[2].role = "alternative"
                   /\ res.errors = << >>

\* C10 witness: the alternative call was rejected first, the primary call was
\* fulfilled after it, and one primary candidate came back.
C10_Witness ==
    /\ gen.phase = "done"
    /\ gen.settled = << "alternative", "primary" >>
    /\ gen.primary.status = "fulfilled"
    /\ gen.alt.status = "rejected"
    /\ Len(gen.result.candidates) = 1

\* C11: when the audit's model call throws or returns text that is no JSON,
\* auditCode returns risk medium, score 50, no findings and one performance
\* note; the failure never reaches the run's catch block, and a run that
\* returns after it is stored as completed with that audit result.
C11_AuditDegradesNotAborts ==
    "auditCode" \in run.degraded
        => /\ run.securityAudit.overallRisk = "medium"
           /\ run.securityAudit.score = 50
           /\ run.securityAudit.findings = 0
           /\ run.securityAudit.performanceNotes > 0
           /\ run.error \in { "none", "save", "User.findByIdAndUpdate", "History.create" }
           /\ run.outcome = "returned"
                 => /\ run.record.status = "completed"
                    /\ run.record.securityAudit = run.securityAudit

\* C11 witness: a run whose audit call failed has returned, stored completed.
C11_Witness ==
    /\ "auditCode" \in run.degraded
    /\ run.outcome = "returned"
    /\ run.record.status = "completed"
    /\ run.record.securityAudit = AuditDegraded

\* C12: an invocation of chatCompletion or createEmbedding makes at most
\* maxAttempts backend calls, and once invoked it ends, by returning or by
\* throwing, whatever errors the backend calls fail with.
C12_GatewayTerminates ==
    /\ [](gw.calls <= MaxAttempts)
    /\ [](gw.pc = "done" => gw.outcome \in { "returned", "threw" })
    /\ (gw.pc # "idle") ~> (gw.pc = "done")

\* C12 witness: an invocation whose three backend calls all failed with
\* retryable errors has thrown.
C12_Witness ==
    /\ gw.pc = "done"
    /\ gw.outcome = "threw"
    /\ gw.calls = MaxAttempts
    /\ \A i \in 1 .. Len(gw.errors) : IsRetryable(gw.errors[i])

\* C13: a backend call is retried only after an error with status 429, 500 or
\* 503 or code ECONNRESET or ETIMEDOUT: any other error is the invocation's
\* last, and the invocation has thrown with it.
C13_RetryOnlyRetryable ==
    \A i \in 1 .. Len(gw.errors) :
        ~IsRetryable(gw.errors[i])
            => (i = Len(gw.errors) /\ gw.pc = "done" /\ gw.outcome = "threw")

\* C14: calculateConfidence returns the weighted sum judge*0.4 + runtime*0.3
\* + static*0.2 + (docSimilarity*100)*0.1 rounded once to the nearest integer
\* (docSimilarity in thousandths: the sum in hundredths, plus one half).
C14_WeightedSumRoundedOnce ==
    conf.called
        => conf.result.confidenceScore =
              (40 * conf.judgeScore + 30 * conf.runtimeScore + 20 * conf.staticScore
                   + conf.docSimilarity + 50) \div 100

\* C15: the status is verified exactly when the returned score is at least 75
\* with runtime at least 70 and static at least 60; failing that it is partial
\* exactly when the score is at least 50; failing both it is unverified.
C15_StatusThresholds ==
    conf.called
        => LET c == conf.result.confidenceScore
               v == c >= 75 /\ conf.runtimeScore >= 70 /\ conf.staticScore >= 60
               st == conf.result.verificationStatus
           IN  /\ st \in { "verified", "partial", "unverified" }
               /\ st = "verified" <=> v
               /\ st = "partial" <=> (~v /\ c >= 50)
               /\ st = "unverified" <=> (~v /\ c < 50)

\* C15 witness: a score of at least 75 with runtime 69 is partial.
C15_Witness ==
    /\ conf.called
    /\ conf.result.confidenceScore >= 75
    /\ conf.runtimeScore = 69
    /\ conf.staticScore >= 60
    /\ conf.result.verificationStatus = "partial"

\* The mappings pushed for block b.
MappingsOf(b) == SelectSeq(tm.mappings, LAMBDA m : m.block = b)

\* C16: a block of at least 15 characters whose embedding was computed has a
\* mapping exactly when its best similarity over the embedded chunks is at
\* least 0.3; the mapping is single and names a chunk that has that best
\* similarity; a shorter block has none.
C16_TraceThreshold ==
    tm.last.index > 0 =>
        LET b == tm.last
            ms == MappingsOf(b.index)
            reaches == \E k \in 1 .. Len(b.scores) : b.scores[k] >= SimilarityThreshold
        IN  /\ Len(ms) <= 1
            /\ (b.long /\ b.embedded) => (Len(ms) = 1 <=> reaches)
            /\ ~b.long => Len(ms) = 0
            /\ Len(ms) = 1 =>
                   \E k \in 1 .. Len(b.scores) :
                       /\ tm.embedded[k] = ms[1].docChunk
                       /\ b.scores[k] = ms[1].similarityScore
                       /\ \A h \in 1 .. Len(b.scores) : b.scores[h] <= b.scores[k]

\* C16 witness: with two embedded chunks, the second block's best similarity
\* is exactly 0.3, reached by its second chunk, and the block is mapped to it,
\* while the first block has no mapping.
C16_Witness ==
    /\ tm.last.index = 2
    /\ tm.last.scores = << 299, 300 >>
    /\ Len(tm.mappings) = 1
    /\ tm.mappings[1].block = 2
    /\ tm.mappings[1].similarityScore = SimilarityThreshold
    /\ tm.mappings[1].docChunk = tm.embedded[2]

\* The names of the events in the trace, in the order they were emitted.
Events ==
    LET emits == SelectSeq(run.trace, LAMBDA e : e[1] = "emit")
    IN  [i \in 1 .. Len(emits) |-> emits[i][2]]

\* The place of a progress event in the order of the stages.
StageRank(name) ==
    CASE name = "enhancing_task" -> 1
      [] name = "retrieving_docs" -> 2
      [] name = "generating_code" -> 3
      [] name = "judging" -> 4
      [] name = "validating" -> 5
      [] name = "fixing_code" -> 6
      [] name = "security_audit" -> 7
      [] name = "trace_mapping" -> 8
      [] name = "scoring" -> 9
      [] name = "finalizing" -> 10
      [] OTHER -> 11

\* The progress event under which a call is made.
StageOfCall(name) ==
    CASE name = "enhanceTask" -> "enhancing_task"
      [] name = "retrieveRelevantDocs" -> "retrieving_docs"
      [] name = "generateCode" -> "generating_code"
      [] name = "judgeCode" -> "judging"
      [] name = "fixCode" -> "fixing_code"
      [] name = "auditCode" -> "security_audit"
      [] name = "buildTraceMappings" -> "trace_mapping"
      [] name = "calculateConfidence" -> "scoring"
      [] OTHER -> "any"

\* The stage events are in stage order, fixing_code alone repeating, once per
\* repair attempt, and every call comes after the event of its stage.
StageEventsOrdered ==
    /\ \A i \in 1 .. Len(Events) - 1 :
          \/ StageRank(Events[i]) < StageRank(Events[i + 1])
          \/ Events[i] = "fixing_code" /\ Events[i + 1] = "fixing_code"
    /\ Len(SelectSeq(Events, LAMBDA n : n = "fixing_code")) = run.attempt
    /\ \A i \in 1 .. Len(run.trace) :
          (run.trace[i][1] = "call" /\ StageOfCall(run.trace[i][2]) # "any")
              => \E h \in 1 .. i - 1 : run.trace[h] = Emit(StageOfCall(run.trace[i][2]))

\* C17: progress events are emitted in stage order, each before the work of
\* its stage, and a run that created its Generation and has ended emitted
\* exactly one final event, as its last event: complete when the Generation
\* is stored completed, error when it is stored failed.
C17_EventsOrderedOneFinal ==
    /\ StageEventsOrdered
    /\ (run.pc = "done" /\ run.record.status # "none")
          => /\ Len(SelectSeq(Events, LAMBDA n : n \in { "complete", "error" })) = 1
             /\ Events[Len(Events)] \in { "complete", "error" }
             /\ Events[Len(Events)] = "complete" <=> run.record.status = "completed"
             /\ Events[Len(Events)] = "error" <=> run.record.status = "failed"

\* C18: once the Generation is stored as completed or failed, its stage list
\* holds a record for every stage the run started, in order.
C18_EveryStartedStageRecorded ==
    run.record.status \in { "completed", "failed" }
        => run.record.stages = run.started

\* C19: when the run has ended, the user's requestsUsed was incremented once
\* if the Generation is stored completed and not at all if it is stored
\* failed.
C19_UsageCountedOnSuccessOnly ==
    run.pc = "done"
        => /\ run.record.status = "completed" => run.requestsUsed = 1
           /\ run.record.status = "failed" => run.requestsUsed = 0

\* The codes of the run's candidates.
CandidateCodes == { run.candidates[i].code : i \in 1 .. Len(run.candidates) }

C21_ProcessingEndsTerminal ==
    (run.record.status = "processing")
        ~> (run.record.status \in { "completed", "failed" })

\* C22 as stated: retrieveRelevantDocs never throws, and whenever a storage
\* call or an embedding call it made threw, it returns the raw document text
\* with similarity 0.5.
C22_RetrievalDegradesToRaw ==
    rt.called
        => /\ ~rt.result.threw
           /\ rt.result.failed # {}
                 => /\ rt.result.kind = "raw"
                    /\ rt.result.similarity = [num |-> 500, den |-> 1]

\* The score the in-memory strategy gives chunk i of the document.
MemoryScore(i) == IF rt.in.doc.chunks[i].ok THEN rt.in.doc.chunks[i].score ELSE 0

RECURSIVE SumMemoryScores(_)
SumMemoryScores(q) ==
    IF q = << >> THEN 0 ELSE MemoryScore(q[1]) + SumMemoryScores(Tail(q))

\* C22: retrieveRelevantDocs never throws.  When the chunk query or the task's
\* embedding call throws it returns the raw document text with similarity
\* 0.5; when the embedding call of an in-memory chunk throws, that chunk is
\* scored 0 and the call returns selected chunks with their mean similarity.
C22_RetrievalNeverThrows ==
    rt.called
        => /\ ~rt.result.threw
           /\ rt.result.similarity.den > 0
           /\ (rt.result.failed \cap { "find", "taskEmbedding" }) # {}
                 => /\ rt.result.kind = "raw"
                    /\ rt.result.similarity = [num |-> 500, den |-> 1]
           /\ "chunkEmbedding" \in rt.result.failed
                 => /\ rt.result.kind = "memory"
                    /\ Len(rt.result.chunks) = Min(rt.in.maxChunks, 3)
                           \/ \A i \in 1 .. Len(rt.result.chunks) :
                                  MemoryScore(rt.result.chunks[i]) >= RetrievalThreshold
                    /\ rt.result.similarity =
                           [num |-> SumMemoryScores(rt.result.chunks),
                            den |-> Len(rt.result.chunks)]

\* C22 witness: every chunk embedding of an uncached document failed, and the
\* call returned two chunks with similarity 0.
C22_Witness ==
    /\ rt.called
    /\ rt.result.failed = { "chunkEmbedding" }
    /\ \A i \in 1 .. 3 : ~rt.in.doc.chunks[i].ok
    /\ rt.result.kind = "memory"
    /\ rt.result.chunks = << 1, 2 >>
    /\ rt.result.similarity = [num |-> 0, den |-> 2]

\* C26: in the cache-first strategy, when no cached chunk reaches the
\* threshold, the context is min(maxChunks, number of chunks) cached chunks
\* and no chunk left out has a higher similarity than a chunk taken.
C26_FallbackTakesTopK ==
    (/\ rt.called
     /\ rt.in.keyed /\ rt.in.find = "ok" /\ rt.in.taskEmbedding = "ok"
     /\ Len(rt.in.cached) > 0
     /\ \A i \in 1 .. Len(rt.in.cached) :
           ~(rt.in.cached[i].embedded /\ rt.in.cached[i].score >= RetrievalThreshold))
        => LET taken == { rt.result.chunks[i] : i \in 1 .. Len(rt.result.chunks) }
               left == (1 .. Len(rt.in.cached)) \ taken
           IN  /\ rt.result.kind = "cached"
               /\ Len(rt.result.chunks) = Min(rt.in.maxChunks, Len(rt.in.cached))
               /\ Cardinality(taken) = Len(rt.result.chunks)
               /\ \A c \in taken, d \in left :
                     rt.in.cached[d].embedded
                         => /\ rt.in.cached[c].embedded
                            /\ rt.in.cached[c].score >= rt.in.cached[d].score

\* C23: when a call with forceRefresh has ended, the URL's hash has a complete
\* chunk set: the new one when the call returned, and, when it threw for a URL
\* that had chunks, the set that was there before the call.
C23_ForcedRefreshLeavesCompleteSet ==
    \A p \in Callers :
        (ing[p].pc = "done" /\ ing[p].force)
            => IF ing[p].result.threw
               THEN ing[p].startCount > 0 => ing[p].endCount = ing[p].startCount
               ELSE ing[p].endCount = ing[p].nChunks /\ ing[p].nChunks > 0

\* C24: fixCode is called in a run only if the initial validation failed with
\* a runtime error that is not null, and every fixCode call directly follows a
\* validation that did not pass: the loop stops at the first passed validation.
C24_RepairOnlyAfterFailedValidation ==
    /\ run.fixArgs # << >> =>
          /\ ~run.validations[1].passed
          /\ run.validations[1].runtimeError # "null"
    /\ \A i \in 1..Len(run.fixArgs) :
          i <= Len(run.validations) /\ ~run.validations[i].passed
    /\ run.pc = "fix" => ~run.validationResult.passed

\* One fix was made, its validation passed, and the run went on to the audit
\* without a second fix.
C24_Witness ==
    /\ run.pc = "audit"
    /\ Len(run.fixArgs) = 1
    /\ Len(run.validations) = 2
    /\ run.validations[2].passed

\* C25: every fixCode call of the repair loop, the second included, is given
\* the code current at the call and the runtime error of the validation made
\* just before it, and that runtime error is not null.
C25_FixGetsLatestNonNullError ==
    \A i \in 1..Len(run.fixArgs) :
        /\ i <= Len(run.validations)
        /\ run.fixArgs[i].errorLog = run.validations[i].runtimeError
        /\ run.fixArgs[i].code = IF i = 1
                                 THEN SelectCode(run.candidates, run.judgeResult)
                                 ELSE run.fixed[i - 1]
        /\ run.fixArgs[i].errorLog # "null"

\* C27: in every result of validateCode, staticScore and runtimeScore are both
\* between 0 and 100, whatever score the runtime-validation reply carries.
C27_ScoresWithinRange ==
    vIn.called =>
        /\ vOut.staticScore \in 0..100
        /\ vOut.runtimeScore \in 0..100

\* C28: in every completed run, the judge score given to calculateConfidence
\* is the total of the score tuple at selectedIndex of the stored Judge
\* Result, also when that total is 0 and whatever the length of the scores
\* array the model returned.
C28_JudgeScoreIsSelectedTotal ==
    run.record.status = "completed" =>
        LET judgeResult == run.record.judgeResult
        IN  /\ HasElement(judgeResult.scores, judgeResult.selectedIndex)
            /\ run.record.confidence.judgeScore
                  = ElementAt(judgeResult.scores, judgeResult.selectedIndex).total

\* C29: in every run whose repair loop did not execute, the stored
\* selectedCode is the code of the candidate at the stored
\* judgeResult.selectedIndex, the empty text included.
C29_SelectedCodeAtSelectedIndex ==
    (run.record.status = "completed" /\ run.fixArgs = << >>) =>
        LET candidates == run.record.candidates
            judgeResult == run.record.judgeResult
        IN  /\ HasElement(candidates, judgeResult.selectedIndex)
            /\ run.record.selectedCode
                  = ElementAt(candidates, judgeResult.selectedIndex).code

IsBlankLine(l) == Trim(sp.lines[l]) = ""

LinesOfBlock(b) == b.startLine .. b.endLine

\* C30: the blocks splitCodeIntoBlocks returns have 1-indexed inclusive ranges
\* with 1 <= startLine <= endLine <= number of lines, are disjoint and in
\* increasing order, begin and end on a line that is not blank, and cover
\* exactly the lines of the code that are not blank; a block's text is made of
\* the lines of its range.
C30_BlocksPartitionNonBlankLines ==
    sp.pc = "done" =>
        LET n == Len(sp.lines)
            blocks == sp.blocks
        IN  /\ \A k \in 1..Len(blocks) :
                  /\ 1 <= blocks[k].startLine
                  /\ blocks[k].startLine <= blocks[k].endLine
                  /\ blocks[k].endLine <= n
                  /\ ~IsBlankLine(blocks[k].startLine)
                  /\ ~IsBlankLine(blocks[k].endLine)
                  /\ { blocks[k].text[j].lineNum : j \in 1..Len(blocks[k].text) }
                        = LinesOfBlock(blocks[k])
            /\ \A k \in 1..(Len(blocks) - 1) :
                  blocks[k].endLine < blocks[k + 1].startLine
            /\ \A l \in 1..n :
                  ~IsBlankLine(l) <=> \E k \in 1..Len(blocks) : l \in LinesOfBlock(blocks[k])

\* A code text that begins with a blank line and has two blocks, the first of
\* two lines, separated by a line of white space only, was split.
C30_Witness ==
    /\ sp.pc = "done"
    /\ IsBlankLine(1)
    /\ Len(sp.blocks) = 2
    /\ sp.blocks[1].endLine > sp.blocks[1].startLine
    /\ sp.lines[sp.blocks[1].endLine + 1] = "  "

====
